---- MODULE Spec2Model ----
(***************************************************************************)
(* One-Time-Pad: the encryption daemon otp_enc_d.c, the decryption client  *)
(* otp_dec.c and the key generator keygen.c.                               *)
(*                                                                         *)
(* Characters are their ASCII codes; a C buffer char b[n] is a sequence of *)
(* n codes indexed from 1 (b[i] of the code is b[i+1] here).               *)
(***************************************************************************)
EXTENDS Integers, Sequences, FiniteSets, TLC

VARIABLES cx, xf, cl, wk, ch, disp, net

vars == <<cx, xf, cl, wk, ch, disp, net>>

svars == <<cl, wk, ch, disp, net>>

(***************************************************************************)
(* Characters                                                              *)
(***************************************************************************)
NUL == 0
SP == 32
AT == 64
ChA == 65
ChZ == 90

\* The 27 symbols: 'A'..'Z' and ' '.
Sigma == (ChA..ChZ) \cup {SP}

Zeros(n) == [i \in 1..n |-> NUL]

\* memset(str, '\0', len) where len+1 is meant: the last char is left.
memset0_OneLess(str, n) == [i \in 1..Len(str) |-> IF i <= n - 1 THEN NUL ELSE str[i]]

\* memset(str, '\0', n) on a buffer: the first n chars become NUL.
memset0(str, n) == [i \in 1..Len(str) |-> IF i <= n THEN NUL ELSE str[i]]

\* The first n chars of a buffer.
Take(s, n) == [i \in 1..n |-> s[i]]

\* A text of n chars in its buffer of n+1 chars, NUL-terminated.
Buf(s) == s \o <<NUL>>

\* C's a % b for b > 0: the remainder takes the sign of a.
CRem(a, b) == IF a >= 0 THEN a % b ELSE 0 - ((0 - a) % b)

(***************************************************************************)
(* encrypt (otp_enc_d.c)                                                   *)
(***************************************************************************)
EncModulus == 27

\* The loop body of encrypt at position i (1-based) on the three buffers.
encryptAt_NoReconvert(b, i) ==
    LET p1 == IF b.plain[i] = SP THEN [b.plain EXCEPT ![i] = AT] ELSE b.plain
        k1 == IF b.key[i] = SP THEN [b.key EXCEPT ![i] = AT] ELSE b.key
        cCipher == CRem((p1[i] - 64) + (k1[i] - 64), EncModulus)
    IN  [plain |-> p1, key |-> k1, cipher |-> [b.cipher EXCEPT ![i] = cCipher + 64]]

encryptAt_Mod26(b, i) ==
    LET p1 == IF b.plain[i] = SP THEN [b.plain EXCEPT ![i] = AT] ELSE b.plain
        k1 == IF b.key[i] = SP THEN [b.key EXCEPT ![i] = AT] ELSE b.key
        cCipher == CRem((p1[i] - 64) + (k1[i] - 64), 26)
        c0 == cCipher + 64
    IN  [plain |-> p1, key |-> k1,
         cipher |-> [b.cipher EXCEPT ![i] = IF c0 = AT THEN SP ELSE c0]]

encryptAt(b, i) ==
    LET p1 == IF b.plain[i] = SP THEN [b.plain EXCEPT ![i] = AT] ELSE b.plain
        k1 == IF b.key[i] = SP THEN [b.key EXCEPT ![i] = AT] ELSE b.key
        cPlain == p1[i] - 64
        cKey == k1[i] - 64
        cCipher == CRem(cPlain + cKey, EncModulus)
        c0 == cCipher + 64
    IN  [plain |-> p1, key |-> k1,
         cipher |-> [b.cipher EXCEPT ![i] = IF c0 = AT THEN SP ELSE c0]]

RECURSIVE encryptLoop(_, _, _)
encryptLoop(b, i, len) ==
    IF i > len THEN b ELSE encryptLoop(encryptAt(b, i), i + 1, len)

\* encrypt(plain, key, cipher, len): the three buffers after the call.
encrypt(plain, key, cipher, len) ==
    encryptLoop([plain |-> plain, key |-> key, cipher |-> memset0(cipher, len + 1)],
                1, len)

(***************************************************************************)
(* The DECRYPT transform of the companion daemon: p = (t - k + 27) mod 27  *)
(* per position, over the index of a symbol that encrypt uses ('@' for     *)
(* the space, then the code minus 64).                                     *)
(***************************************************************************)
symIndex(c) == (IF c = SP THEN AT ELSE c) - 64

indexSym(n) == IF n + 64 = AT THEN SP ELSE n + 64

decrypt(text, key, len) ==
    [i \in 1..len |-> indexSym((symIndex(text[i]) - symIndex(key[i]) + 27) % 27)]

(***************************************************************************)
(* sendrecv (otp_enc_d.c and otp_dec.c hold the same function)             *)
(*                                                                         *)
(* A call is a record: str the buffer, len, sendMode, total, rem, last the *)
(* kind of result of the latest send()/recv() ("none" before the first),   *)
(* and st: "loop" at the loop test with total < len (the next step is a    *)
(* send()/recv()), "ret" once the function has returned total.             *)
(***************************************************************************)
\* recv() into str instead of str+total: each part lands at the start.
writeAt_AtStart(str, total, data) ==
    [i \in 1..Len(str) |-> IF i <= Len(data) THEN data[i] ELSE str[i]]

\* str with data written at offset total (recv(sockFD, str+total, ...)).
writeAt(str, total, data) ==
    [i \in 1..Len(str) |->
        IF i > total /\ i <= total + Len(data) THEN data[i - total] ELSE str[i]]

\* Entry of sendrecv up to the first loop test.
sr_begin(str, len, sendMode) ==
    [str |-> IF sendMode THEN str ELSE memset0(str, len + 1),
     len |-> len, sendMode |-> sendMode, total |-> 0, rem |-> len,
     last |-> "none", st |-> IF 0 < len THEN "loop" ELSE "ret"]

\* One iteration of the loop: send()/recv() gave n (and, received, data).
sr_op_OffByOne(f, n, data) ==
    IF n = -1
    THEN [f EXCEPT !.last = "err", !.st = "ret"]
    ELSE [f EXCEPT !.str = IF f.sendMode THEN f.str ELSE writeAt(f.str, f.total, data),
                   !.total = f.total + n,
                   !.rem = f.rem - n,
                   !.last = IF n = 0 THEN "eof" ELSE "moved",
                   !.st = IF f.total + n < f.len - 1 THEN "loop" ELSE "ret"]

\* The loop without the break on n == -1: the failed call is made again.
sr_op_Retry(f, n, data) ==
    IF n = -1
    THEN [f EXCEPT !.last = "err"]
    ELSE [f EXCEPT !.str = IF f.sendMode THEN f.str ELSE writeAt(f.str, f.total, data),
                   !.total = f.total + n,
                   !.rem = f.rem - n,
                   !.last = IF n = 0 THEN "eof" ELSE "moved",
                   !.st = IF f.total + n < f.len THEN "loop" ELSE "ret"]

sr_op(f, n, data) ==
    IF n = -1
    THEN [f EXCEPT !.last = "err", !.st = "ret"]
    ELSE [f EXCEPT !.str = IF f.sendMode THEN f.str ELSE writeAt(f.str, f.total, data),
                   !.total = f.total + n,
                   !.rem = f.rem - n,
                   !.last = IF n = 0 THEN "eof" ELSE "moved",
                   !.st = IF f.total + n < f.len THEN "loop" ELSE "ret"]

\* The chars send(sockFD, str+total, rem, 0) moves when it returns n.
sentChars(f, n) == [i \in 1..n |-> f.str[f.total + i]]

\* A queue of chars in flight without its first n.
Drop(q, n) == [i \in 1..(Len(q) - n) |-> q[i + n]]

Min(a, b) == IF a <= b THEN a ELSE b

(***************************************************************************)
(* The wire protocol's constants and the C library calls main uses         *)
(***************************************************************************)
ID_LEN == 7
AUTH_LEN == 4
BUF_LEN == 9

OTP_ENC == <<111, 116, 112, 95, 101, 110, 99>>
OTP_DEC == <<111, 116, 112, 95, 100, 101, 99>>
PASS == <<80, 65, 83, 83>>
FAIL == <<70, 65, 73, 76>>

\* The C string a buffer holds: its chars before the first NUL.
RECURSIVE cstrFrom(_, _)
cstrFrom(buf, i) ==
    IF i > Len(buf) \/ buf[i] = NUL THEN <<>> ELSE <<buf[i]>> \o cstrFrom(buf, i + 1)

cstr(buf) == cstrFrom(buf, 1)

\* strcmp(buf, lit) == 0
strEq(buf, lit) == cstr(buf) = lit

\* atoi: white space, an optional sign, then decimal digits.
RECURSIVE atoiSkip(_, _)
atoiSkip(s, i) ==
    IF i <= Len(s) /\ s[i] \in ((9..13) \cup {SP}) THEN atoiSkip(s, i + 1) ELSE i

RECURSIVE atoiDigits(_, _, _)
atoiDigits(s, i, acc) ==
    IF i <= Len(s) /\ s[i] \in 48..57
    THEN atoiDigits(s, i + 1, acc * 10 + (s[i] - 48))
    ELSE acc

atoi(buf) ==
    LET s == cstr(buf)
        i == atoiSkip(s, 1)
        signed == i <= Len(s) /\ s[i] \in {43, 45}
        v == atoiDigits(s, IF signed THEN i + 1 ELSE i, 0)
    IN  IF signed /\ s[i] = 45 THEN 0 - v ELSE v

RECURSIVE decimal(_)
decimal(n) == IF n < 10 THEN <<48 + n>> ELSE decimal(n \div 10) \o <<48 + (n % 10)>>

\* snprintf into a buffer one char too small: char buf[BUF_LEN].
lenFrame_Short(n) ==
    LET d == decimal(n)
    IN  [i \in 1..(BUF_LEN + 1) |-> IF i <= Min(Len(d), BUF_LEN - 1) THEN d[i] ELSE NUL]

\* memset(buf, '\0', sizeof(buf)); snprintf(buf, sizeof(buf), "%d", n) on
\* char buf[BUF_LEN+1], for n >= 0.
lenFrame(n) ==
    LET d == decimal(n)
    IN  [i \in 1..(BUF_LEN + 1) |-> IF i <= Min(Len(d), BUF_LEN) THEN d[i] ELSE NUL]

\* The authorization the daemon answers to a received id.
authFor_Prefix(id) == IF Take(id, 4) = Take(OTP_ENC, 4) THEN PASS ELSE FAIL

authFor(id) == IF strEq(id, OTP_ENC) THEN PASS ELSE FAIL

(***************************************************************************)
(* Connections, clients (otp_dec.c main) and workers (the child branch of  *)
(* otp_enc_d.c main)                                                       *)
(*                                                                         *)
(* ch[c]: c2s and s2c, the chars in flight each way; cOpen, the client     *)
(* holds its socket open; sRefs, who on the daemon's side holds the        *)
(* connection open ("listen": established, not yet accepted; "parent";     *)
(* "worker").                                                              *)
(* net: what the environment may still do: errs, the send()/recv() calls   *)
(* that may yet fail on a sound connection; partial, whether send()/recv() *)
(* may move less than is possible; acceptFails and forkFails, the accept() *)
(* and fork() calls that may yet fail.                                     *)
(***************************************************************************)
MaxConn == 2

\* The longest text a client holds.
MaxText == 2
MaxAcceptFail == 1

Conns == 1..MaxConn
Workers == 1..(MaxConn + MaxAcceptFail)
BadFD == -1

ClientCalls == {"send_id", "recv_auth", "send_textLen", "send_text", "send_keyLen",
                "send_key", "recv_result"}
WorkerCalls == {"recv_id", "send_auth", "recv_textLen", "recv_text", "recv_keyLen",
                "recv_key", "send_result"}

NoCall == sr_begin(<<>>, 0, TRUE)

ClientIdle ==
    [pc |-> "unconnected", f |-> NoCall, id |-> <<>>, auth |-> <<>>, textLen |-> 0,
     ciphertext |-> <<>>, keyLen |-> 0, key |-> <<>>, out |-> <<>>,
     trace |-> <<>>, shortAt |-> 0,
     textFile |-> <<>>, keyFile |-> <<>>, pos |-> 0, length |-> 0]

WorkerIdle ==
    [pc |-> "none", fd |-> BadFD, f |-> NoCall, auth |-> <<>>, textLen |-> 0,
     plaintext |-> <<>>, keyLen |-> 0, key |-> <<>>, reaped |-> FALSE,
     trace |-> <<>>, shortAt |-> 0]

ChanIdle == [c2s |-> <<>>, s2c |-> <<>>, cOpen |-> FALSE, sRefs |-> {}]

DispIdle == [pc |-> "idle", connectedFD |-> BadFD, pid |-> 0, round |-> 1, pending |-> <<>>]

NetQuiet ==
    [errs |-> 0, partial |-> FALSE, acceptFails |-> 0, forkFails |-> 0]

\* The parts of the state a specification does not use.
CipherIdle == [pc |-> "idle"]

XferIdle ==
    [pc |-> "idle", f |-> NoCall, wire |-> <<>>, data |-> <<>>,
     fed |-> 0, peer |-> "open", clean |-> TRUE, str0 |-> <<>>, ret |-> 0]

ServiceIdle ==
    /\ cl = [c \in Conns |-> ClientIdle]
    /\ wk = [w \in Workers |-> WorkerIdle]
    /\ ch = [c \in Conns |-> ChanIdle]
    /\ disp = DispIdle
    /\ net = NetQuiet

\* otp_dec after connect() has succeeded, about to send its id: textLen and
\* keyLen as scanfile gave them, ciphertext and key as readfile filled them.
ClientStart(id, text, key) ==
    [ClientIdle EXCEPT !.pc = "send_id", !.id = Buf(id),
                       !.f = sr_begin(Buf(id), ID_LEN, TRUE),
                       !.textLen = Len(text), !.ciphertext = Buf(text),
                       !.keyLen = Len(key), !.key = Buf(key),
                       !.trace = <<"send_id">>]

\* The child after fork(), about to receive the id on descriptor fd.
WorkerStart(fd) ==
    [WorkerIdle EXCEPT !.pc = "recv_id", !.fd = fd,
                       !.f = sr_begin(Zeros(ID_LEN + 1), ID_LEN, FALSE),
                       !.trace = <<"recv_id">>]

\* The counts a send()/recv() may return when up to avail chars can move.
Chunks(avail) == IF net.partial THEN 1..avail ELSE {avail} \ {0}

\* The call that came back short, if it is the first to: its place in trace.
ShortAt(p) ==
    IF p.shortAt = 0 /\ p.f.total # p.f.len THEN Len(p.trace) ELSE p.shortAt

(***************************************************************************)
(* The client's steps: each is one send()/recv() of the sendrecv call the  *)
(* client is in and, when that ends the call, main of otp_dec.c up to the  *)
(* next send()/recv() (or to the end of the process).                      *)
(***************************************************************************)
ClientEnded == {"exit2", "done", "killed"}

\* main of otp_dec.c with the text sent ahead of its length.
ClientAfter_TextFirst(p) ==
    LET q == [p EXCEPT !.shortAt = ShortAt(p)]
        call(pc, str, len, sendMode) ==
            [q EXCEPT !.pc = pc, !.f = sr_begin(str, len, sendMode),
                      !.trace = Append(@, pc)]
    IN  CASE p.pc = "send_id" ->
                call("recv_auth", Zeros(AUTH_LEN + 1), AUTH_LEN, FALSE)
          [] p.pc = "recv_auth" ->
                IF ~strEq(p.f.str, PASS)
                THEN [q EXCEPT !.pc = "exit2", !.auth = p.f.str]
                ELSE [call("send_text", p.ciphertext, p.textLen, TRUE)
                        EXCEPT !.auth = p.f.str]
          [] p.pc = "send_text" ->
                call("send_textLen", lenFrame(p.textLen), BUF_LEN, TRUE)
          [] p.pc = "send_textLen" ->
                call("send_keyLen", lenFrame(p.keyLen), BUF_LEN, TRUE)
          [] p.pc = "send_keyLen" ->
                call("send_key", p.key, p.keyLen, TRUE)
          [] p.pc = "send_key" ->
                call("recv_result", Zeros(p.textLen + 1), p.textLen, FALSE)
          [] p.pc = "recv_result" ->
                [q EXCEPT !.pc = "done", !.out = cstr(p.f.str),
                          !.trace = Append(@, "print")]

\* main of otp_dec.c from the return of one sendrecv to the entry of the next.
ClientAfter(p) ==
    LET q == [p EXCEPT !.shortAt = ShortAt(p)]
        call(pc, str, len, sendMode) ==
            [q EXCEPT !.pc = pc, !.f = sr_begin(str, len, sendMode),
                      !.trace = Append(@, pc)]
    IN  CASE p.pc = "send_id" ->
                call("recv_auth", Zeros(AUTH_LEN + 1), AUTH_LEN, FALSE)
          [] p.pc = "recv_auth" ->
                IF ~strEq(p.f.str, PASS)
                THEN [q EXCEPT !.pc = "exit2", !.auth = p.f.str]
                ELSE [call("send_textLen", lenFrame(p.textLen), BUF_LEN, TRUE)
                        EXCEPT !.auth = p.f.str]
          [] p.pc = "send_textLen" ->
                call("send_text", p.ciphertext, p.textLen, TRUE)
          [] p.pc = "send_text" ->
                call("send_keyLen", lenFrame(p.keyLen), BUF_LEN, TRUE)
          [] p.pc = "send_keyLen" ->
                call("send_key", p.key, p.keyLen, TRUE)
          [] p.pc = "send_key" ->
                call("recv_result", Zeros(p.textLen + 1), p.textLen, FALSE)
          [] p.pc = "recv_result" ->
                [q EXCEPT !.pc = "done", !.out = cstr(p.f.str),
                          !.trace = Append(@, "print")]

\* The client runs on while the sendrecv it is in has returned (q names the
\* state after one stretch of main, worked out once).
RECURSIVE ClientRun(_)
ClientRun(p) ==
    IF p.pc \in ClientCalls /\ p.f.st = "ret"
    THEN CHOOSE r \in {ClientRun(q) : q \in {ClientAfter(p)}} : TRUE
    ELSE p

ClientInCall(c) == cl[c].pc \in ClientCalls /\ cl[c].f.st = "loop"

\* The state after a send()/recv() of client c that left call f2 and the
\* chars c2s and s2c in flight.
ClientDoes(c, f2, c2s, s2c) ==
    \E p \in {ClientRun(q) : q \in {[cl[c] EXCEPT !.f = f2]}} :
        /\ cl' = [cl EXCEPT ![c] = p]
        /\ ch' = [ch EXCEPT ![c].c2s = c2s, ![c].s2c = s2c,
                            ![c].cOpen = p.pc \notin ClientEnded]

\* send() moves n chars to the daemon's side.
ClientSend(c) ==
    /\ ClientInCall(c) /\ cl[c].f.sendMode
    /\ ch[c].sRefs # {}
    /\ \E n \in Chunks(cl[c].f.rem) :
          ClientDoes(c, sr_op(cl[c].f, n, <<>>),
                     ch[c].c2s \o sentChars(cl[c].f, n), ch[c].s2c)
    /\ UNCHANGED <<wk, disp, net, cx, xf>>

\* recv() moves n of the chars that have arrived.
ClientRecv(c) ==
    /\ ClientInCall(c) /\ ~cl[c].f.sendMode
    /\ \E n \in Chunks(Min(cl[c].f.rem, Len(ch[c].s2c))) :
          ClientDoes(c, sr_op(cl[c].f, n, Take(ch[c].s2c, n)),
                     ch[c].c2s, Drop(ch[c].s2c, n))
    /\ UNCHANGED <<wk, disp, net, cx, xf>>

\* recv() returns 0: the daemon's side is closed and nothing is left to read.
ClientRecvEof(c) ==
    /\ ClientInCall(c) /\ ~cl[c].f.sendMode
    /\ ch[c].s2c = <<>> /\ ch[c].sRefs = {}
    /\ ClientDoes(c, sr_op(cl[c].f, 0, <<>>), ch[c].c2s, ch[c].s2c)
    /\ UNCHANGED <<wk, disp, net, cx, xf>>

\* send() to a side that has closed fails.
ClientSendClosed(c) == cl[c].f.sendMode /\ ch[c].sRefs = {}

\* send()/recv() returns -1: an error of the connection, or a send() to a
\* side that has closed.
ClientIoErr(c) ==
    /\ ClientInCall(c)
    /\ IF ClientSendClosed(c) THEN UNCHANGED net
       ELSE net.errs > 0 /\ net' = [net EXCEPT !.errs = @ - 1]
    /\ ClientDoes(c, sr_op(cl[c].f, -1, <<>>), ch[c].c2s, ch[c].s2c)
    /\ UNCHANGED <<wk, disp, cx, xf>>

\* send() to a side that has closed raises SIGPIPE: the process ends.
ClientSendPipe(c) ==
    /\ ClientInCall(c) /\ ClientSendClosed(c)
    /\ cl' = [cl EXCEPT ![c].pc = "killed"]
    /\ ch' = [ch EXCEPT ![c].cOpen = FALSE]
    /\ UNCHANGED <<wk, disp, net, cx, xf>>

(***************************************************************************)
(* The worker's steps, likewise                                            *)
(***************************************************************************)
WorkerEnded == {"exit0", "killed"}

\* What a read past the end of an array may find.
StrayChars == {NUL, ChA}

\* The child branch of main of otp_enc_d.c from the return of one sendrecv to
\* the entry of the next (or to exit(0)); stray is what lies behind the end of
\* key[keyLen+1], where encrypt reads when textLen exceeds it.
WorkerAfter(p, stray) ==
    LET q == [p EXCEPT !.shortAt = ShortAt(p)]
        call(pc, str, len, sendMode) ==
            [q EXCEPT !.pc = pc, !.f = sr_begin(str, len, sendMode),
                      !.trace = Append(@, pc)]
    IN  CASE p.pc = "recv_id" ->
                [call("send_auth", Buf(authFor(p.f.str)), AUTH_LEN, TRUE)
                    EXCEPT !.auth = Buf(authFor(p.f.str))]
          [] p.pc = "send_auth" ->
                IF strEq(p.auth, PASS)
                THEN call("recv_textLen", Zeros(BUF_LEN + 1), BUF_LEN, FALSE)
                ELSE [q EXCEPT !.pc = "exit0"]
          [] p.pc = "recv_textLen" ->
                [call("recv_text", Zeros(atoi(p.f.str) + 1), atoi(p.f.str), FALSE)
                    EXCEPT !.textLen = atoi(p.f.str)]
          [] p.pc = "recv_text" ->
                [call("recv_keyLen", Zeros(BUF_LEN + 1), BUF_LEN, FALSE)
                    EXCEPT !.plaintext = p.f.str]
          [] p.pc = "recv_keyLen" ->
                [call("recv_key", Zeros(atoi(p.f.str) + 1), atoi(p.f.str), FALSE)
                    EXCEPT !.keyLen = atoi(p.f.str)]
          [] p.pc = "recv_key" ->
                LET over == IF p.textLen > p.keyLen + 1
                            THEN p.textLen - (p.keyLen + 1) ELSE 0
                    r == encrypt(p.plaintext, p.f.str \o Take(stray, over),
                                 Zeros(p.textLen + 1), p.textLen)
                IN  [q EXCEPT !.pc = "send_result",
                              !.f = sr_begin(r.cipher, p.textLen, TRUE),
                              !.plaintext = r.plain,
                              !.key = Take(r.key, p.keyLen + 1),
                              !.trace = @ \o <<"encrypt", "send_result">>]
          [] p.pc = "send_result" ->
                [q EXCEPT !.pc = "exit0"]

\* The most chars behind the end of key that the step out of p can read.
StrayLen(p) ==
    IF p.pc \in {"recv_keyLen", "recv_key"} /\ p.textLen > 1 THEN p.textLen - 1 ELSE 0

RECURSIVE WorkerRun(_, _)
WorkerRun(p, stray) ==
    IF p.pc \in WorkerCalls /\ p.f.st = "ret"
    THEN CHOOSE r \in {WorkerRun(q, stray) : q \in {WorkerAfter(p, stray)}} : TRUE
    ELSE p

WorkerInCall(w) == wk[w].pc \in WorkerCalls /\ wk[w].f.st = "loop"

\* The connection behind the worker's descriptor (none behind a failed accept).
WorkerChan(w) == IF wk[w].fd = BadFD THEN ChanIdle ELSE ch[wk[w].fd]

\* The same with workers that are threads of one process, all using the one
\* auth[AUTH_LEN+1] of main.
WorkerDoes_SharedAuth(w, f2, c2s, s2c) ==
    \E stray \in [1..StrayLen(wk[w]) -> StrayChars] :
        \E p \in {WorkerRun(q, stray) : q \in {[wk[w] EXCEPT !.f = f2]}} :
            /\ wk' = [v \in Workers |->
                        IF v = w THEN p
                        ELSE IF wk[v].pc \in WorkerCalls
                             THEN [wk[v] EXCEPT !.auth = p.auth] ELSE wk[v]]
            /\ ch' = IF wk[w].fd = BadFD THEN ch
                     ELSE [ch EXCEPT ![wk[w].fd].c2s = c2s, ![wk[w].fd].s2c = s2c,
                                     ![wk[w].fd].sRefs =
                                        IF p.pc \in WorkerEnded THEN @ \ {"worker"} ELSE @]

\* The state after a send()/recv() of worker w that left call f2 and the chars
\* c2s and s2c in flight.
WorkerDoes(w, f2, c2s, s2c) ==
    \E stray \in [1..StrayLen(wk[w]) -> StrayChars] :
        \E p \in {WorkerRun(q, stray) : q \in {[wk[w] EXCEPT !.f = f2]}} :
            /\ wk' = [wk EXCEPT ![w] = p]
            /\ ch' = IF wk[w].fd = BadFD THEN ch
                     ELSE [ch EXCEPT ![wk[w].fd].c2s = c2s, ![wk[w].fd].s2c = s2c,
                                     ![wk[w].fd].sRefs =
                                        IF p.pc \in WorkerEnded THEN @ \ {"worker"} ELSE @]

WorkerSend(w) ==
    /\ WorkerInCall(w) /\ wk[w].f.sendMode
    /\ wk[w].fd # BadFD /\ WorkerChan(w).cOpen
    /\ \E n \in Chunks(wk[w].f.rem) :
          WorkerDoes(w, sr_op(wk[w].f, n, <<>>),
                     WorkerChan(w).c2s, WorkerChan(w).s2c \o sentChars(wk[w].f, n))
    /\ UNCHANGED <<cl, disp, net, cx, xf>>

WorkerRecv(w) ==
    /\ WorkerInCall(w) /\ ~wk[w].f.sendMode
    /\ wk[w].fd # BadFD
    /\ \E n \in Chunks(Min(wk[w].f.rem, Len(WorkerChan(w).c2s))) :
          WorkerDoes(w, sr_op(wk[w].f, n, Take(WorkerChan(w).c2s, n)),
                     Drop(WorkerChan(w).c2s, n), WorkerChan(w).s2c)
    /\ UNCHANGED <<cl, disp, net, cx, xf>>

WorkerRecvEof(w) ==
    /\ WorkerInCall(w) /\ ~wk[w].f.sendMode
    /\ wk[w].fd # BadFD
    /\ WorkerChan(w).c2s = <<>> /\ ~WorkerChan(w).cOpen
    /\ WorkerDoes(w, sr_op(wk[w].f, 0, <<>>), WorkerChan(w).c2s, WorkerChan(w).s2c)
    /\ UNCHANGED <<cl, disp, net, cx, xf>>

\* A descriptor that is none (accept() had failed), or a send() to a client
\* that has closed: send()/recv() fails.
WorkerIoSure(w) == wk[w].fd = BadFD \/ (wk[w].f.sendMode /\ ~WorkerChan(w).cOpen)

\* send()/recv() returns -1.
WorkerIoErr(w) ==
    /\ WorkerInCall(w)
    /\ IF WorkerIoSure(w) THEN UNCHANGED net
       ELSE net.errs > 0 /\ net' = [net EXCEPT !.errs = @ - 1]
    /\ WorkerDoes(w, sr_op(wk[w].f, -1, <<>>), WorkerChan(w).c2s, WorkerChan(w).s2c)
    /\ UNCHANGED <<cl, disp, cx, xf>>

WorkerSendPipe(w) ==
    /\ WorkerInCall(w) /\ wk[w].f.sendMode
    /\ wk[w].fd # BadFD /\ ~WorkerChan(w).cOpen
    /\ wk' = [wk EXCEPT ![w].pc = "killed"]
    /\ ch' = [ch EXCEPT ![wk[w].fd].sRefs = @ \ {"worker"}]
    /\ UNCHANGED <<cl, disp, net, cx, xf>>

(***************************************************************************)
(* The start of otp_dec: main from the scanning of the two files to        *)
(* connect(), with scanfile taken one fgetc() at a time.                   *)
(*   cl[c].textFile, keyFile   the contents of the files argv[1], argv[2]  *)
(*   cl[c].pos      how many chars the scanfile under way has read         *)
(*   cl[c].length   its local length                                       *)
(***************************************************************************)
MaxFile == 3

\* scanfile is followed for at most this many chars counted.
MaxScan == 4

NL == 10
LowA == 97
EOFChar == -1

FileChars == {ChA, LowA, NL}

Files == UNION {[1..n -> FileChars] : n \in 0..MaxFile}

\* c = fgetc(fd) after pos chars have been read: EOF at the end of the file.
fgetc(file, pos) == IF pos < Len(file) THEN file[pos + 1] ELSE EOFChar

\* The test scanfile makes of a char: c == ' ' || (c >= 'A' || c <= 'Z').
validChar(c) == c = SP \/ (c >= ChA \/ c <= ChZ)

\* fgets(str, len, fd) from the start of the file: at most len-1 chars, up to
\* and with the first newline.
RECURSIVE fgets(_, _, _)
fgets(file, len, i) ==
    IF i > Len(file) \/ i > len - 1 THEN <<>>
    ELSE IF file[i] = NL THEN <<NL>>
    ELSE <<file[i]>> \o fgets(file, len, i + 1)

\* readfile(filename, str, len) on a buffer of len chars: what str holds.
readfile(file, len) ==
    LET got == fgets(file, len, 1)
    IN  [i \in 1..len |-> IF i <= Len(got) THEN got[i] ELSE NUL]

\* The check of main that lets a key one symbol too short pass.
tooShort_ByOne(keyLen, textLen) == keyLen + 1 < textLen

\* The check of main: keyLen < textLen.
tooShort(keyLen, textLen) == keyLen < textLen

StartPcs == {"scan_text", "scan_key"}

ScannedFile(c) == IF cl[c].pc = "scan_text" THEN cl[c].textFile ELSE cl[c].keyFile

StartInit ==
    /\ cx = CipherIdle
    /\ xf = XferIdle
    /\ \E tf \in Files, kf \in Files :
          cl = [c \in Conns |->
                  IF c = 1 THEN [ClientIdle EXCEPT !.pc = "scan_text",
                                                   !.textFile = tf, !.keyFile = kf]
                  ELSE ClientIdle]
    /\ wk = [w \in Workers |-> WorkerIdle]
    /\ ch = [c \in Conns |-> ChanIdle]
    /\ disp = DispIdle
    /\ net = NetQuiet

\* One turn of the loop of scanfile on a char that is not the newline.
ScanChar(c) ==
    /\ cl[c].pc \in StartPcs
    /\ fgetc(ScannedFile(c), cl[c].pos) # NL
    /\ cl[c].length < MaxScan
    /\ cl' = [cl EXCEPT ![c] =
                IF validChar(fgetc(ScannedFile(c), cl[c].pos))
                THEN [@ EXCEPT !.length = @ + 1,
                               !.pos = Min(@ + 1, Len(ScannedFile(c)))]
                ELSE [@ EXCEPT !.pc = "exit1"]]
    /\ UNCHANGED <<wk, ch, disp, net, cx, xf>>

\* scanfile reads the newline and returns length; main goes on to the next
\* scanfile or, past its checks, reads both files.
ScanReturn(c) ==
    /\ cl[c].pc \in StartPcs
    /\ fgetc(ScannedFile(c), cl[c].pos) = NL
    /\ cl' = [cl EXCEPT ![c] =
                IF cl[c].length < 1 THEN [@ EXCEPT !.pc = "exit1"]
                ELSE IF cl[c].pc = "scan_text"
                THEN [@ EXCEPT !.pc = "scan_key", !.textLen = cl[c].length,
                               !.pos = 0, !.length = 0]
                ELSE IF tooShort(cl[c].length, cl[c].textLen)
                THEN [@ EXCEPT !.pc = "exit1", !.keyLen = cl[c].length]
                ELSE [@ EXCEPT !.pc = "gethost", !.keyLen = cl[c].length,
                               !.ciphertext = readfile(cl[c].textFile, cl[c].textLen + 1),
                               !.key = readfile(cl[c].keyFile, cl[c].length + 1)]]
    /\ UNCHANGED <<wk, ch, disp, net, cx, xf>>

\* gethostbyname("localhost"), then socket(): each may fail, and main exits
\* with 2.
GetHost(c) ==
    /\ cl[c].pc = "gethost"
    /\ \E ok \in BOOLEAN :
          cl' = [cl EXCEPT ![c].pc = IF ok THEN "socket" ELSE "exit2"]
    /\ UNCHANGED <<wk, ch, disp, net, cx, xf>>

Socket(c) ==
    /\ cl[c].pc = "socket"
    /\ \E ok \in BOOLEAN :
          cl' = [cl EXCEPT ![c].pc = IF ok THEN "connect" ELSE "exit2"]
    /\ UNCHANGED <<wk, ch, disp, net, cx, xf>>

\* connect(): on success the client is about to send its id.
Connect(c) ==
    /\ cl[c].pc = "connect"
    /\ \E ok \in BOOLEAN :
          cl' = [cl EXCEPT ![c] =
                   IF ok THEN [@ EXCEPT !.pc = "send_id", !.id = Buf(OTP_DEC),
                                        !.f = sr_begin(Buf(OTP_DEC), ID_LEN, TRUE),
                                        !.trace = <<"send_id">>]
                   ELSE [@ EXCEPT !.pc = "exit2"]]
    /\ ch' = [ch EXCEPT ![c].cOpen = cl'[c].pc = "send_id"]
    /\ UNCHANGED <<wk, disp, net, cx, xf>>

StartNext ==
    \E c \in Conns : ScanChar(c) \/ ScanReturn(c) \/ GetHost(c) \/ Socket(c) \/ Connect(c)

SpecStart == StartInit /\ [][StartNext]_vars

(***************************************************************************)
(* Claims about the start of otp_dec (under SpecStart)                     *)
(***************************************************************************)
\* The symbols a file holds before its newline (all of it if it has none).
RECURSIVE BeforeNL(_)
BeforeNL(file) ==
    IF file = <<>> \/ Head(file) = NL THEN <<>> ELSE <<Head(file)>> \o BeforeNL(Tail(file))

HasNL(file) == \E i \in 1..Len(file) : file[i] = NL

\* The client has a socket, or has had one.
PastSocket(c) == cl[c].pc \in {"connect", "send_id"} \/ ch[c].cOpen \/ cl[c].trace # <<>>

\* C16: when the key file holds fewer symbols before its newline than the
\* text file, otp_dec makes no socket, attempts no connection and sends no
\* frame: it scans each file up to its newline and no further, and exits with
\* a failure status on an empty text or on the length the key file has.
C16_ShortKeyExits ==
    \A c \in Conns :
        (cl[c].pc # "unconnected" /\ HasNL(cl[c].textFile) /\ HasNL(cl[c].keyFile)
            /\ Len(BeforeNL(cl[c].keyFile)) < Len(BeforeNL(cl[c].textFile))) =>
            /\ ~PastSocket(c)
            /\ cl[c].pc \in StartPcs \cup {"exit1"}
            /\ cl[c].pc \in StartPcs =>
                  /\ cl[c].length = cl[c].pos
                  /\ cl[c].pos <= Len(BeforeNL(ScannedFile(c)))
            /\ cl[c].pc = "exit1" =>
                  \/ cl[c].textLen = 0
                  \/ cl[c].keyLen = Len(BeforeNL(cl[c].keyFile))

C16_Witness ==
    /\ cl[1].pc = "exit1" /\ cl[1].textLen = 2 /\ cl[1].keyLen = 1
    /\ Len(BeforeNL(cl[1].keyFile)) = 1 /\ Len(BeforeNL(cl[1].textFile)) = 2
    /\ ~PastSocket(1)

\* A file holds, before its newline, a char outside {A..Z, space}.
HasBadChar(file) ==
    \E i \in 1..Len(BeforeNL(file)) : BeforeNL(file)[i] \notin Sigma

\* C17: when the text file or the key file holds, before its newline, a char
\* outside the alphabet, scanfile fails: otp_dec counts no such char as a
\* symbol, and makes no socket and attempts no connection.
C17_BadCharExits ==
    \A c \in Conns :
        (cl[c].pc # "unconnected" /\ HasNL(cl[c].textFile) /\ HasNL(cl[c].keyFile)
            /\ (HasBadChar(cl[c].textFile) \/ HasBadChar(cl[c].keyFile))) =>
            /\ ~PastSocket(c)
            /\ cl[c].pc \in StartPcs \cup {"exit1"}
            /\ cl[c].pc \in StartPcs =>
                  \A i \in 1..cl[c].pos : ScannedFile(c)[i] \in Sigma

(***************************************************************************)
(* One session: a client connected to a worker that has been forked        *)
(***************************************************************************)
MaxErrs == 1

TextChars == [i \in 1..MaxText |-> IF i % 2 = 1 THEN ChA ELSE SP]
KeyChars ==
    [i \in 1..(MaxText + 1) |-> IF i % 3 = 1 THEN SP ELSE IF i % 3 = 2 THEN ChZ ELSE ChA]

\* Inputs that pass the client's checks: 1 <= textLen <= keyLen.
SessionInputs ==
    {<<Take(TextChars, n), Take(KeyChars, m)>> : n \in 1..MaxText, m \in 1..(MaxText + 1)}

SessionInit ==
    /\ cx = CipherIdle
    /\ xf = XferIdle
    /\ \E id \in {OTP_DEC, OTP_ENC}, in \in SessionInputs :
          /\ Len(in[2]) >= Len(in[1])
          /\ cl = [c \in Conns |-> IF c = 1 THEN ClientStart(id, in[1], in[2])
                                            ELSE ClientIdle]
    /\ wk = [w \in Workers |-> IF w = 1 THEN WorkerStart(1) ELSE WorkerIdle]
    /\ ch = [c \in Conns |-> IF c = 1 THEN [ChanIdle EXCEPT !.cOpen = TRUE,
                                                            !.sRefs = {"worker"}]
                                      ELSE ChanIdle]
    /\ disp = DispIdle
    /\ net = [NetQuiet EXCEPT !.errs = MaxErrs, !.partial = TRUE]

ClientStep(c) ==
    \/ ClientSend(c) \/ ClientRecv(c) \/ ClientRecvEof(c)
    \/ ClientIoErr(c) \/ ClientSendPipe(c)

WorkerStep(w) ==
    \/ WorkerSend(w) \/ WorkerRecv(w) \/ WorkerRecvEof(w)
    \/ WorkerIoErr(w) \/ WorkerSendPipe(w)

Next ==
    \/ \E c \in Conns : ClientStep(c)
    \/ \E w \in Workers : WorkerStep(w)

Spec == SessionInit /\ [][Next]_vars

\* Both processes are scheduled as long as they can take a step.
FairSession ==
    /\ Spec
    /\ \A c \in Conns : WF_vars(ClientStep(c))
    /\ \A w \in Workers : WF_vars(WorkerStep(w))

(***************************************************************************)
(* Claims about one session (under Spec)                                   *)
(***************************************************************************)
IsPrefix(s, t) == Len(s) <= Len(t) /\ \A i \in 1..Len(s) : s[i] = t[i]

\* The calls of each side in the order the protocol fixes.
ClientOrder ==
    <<"send_id", "recv_auth", "send_textLen", "send_text", "send_keyLen",
      "send_key", "recv_result", "print">>

WorkerOrder ==
    <<"recv_id", "send_auth", "recv_textLen", "recv_text", "recv_keyLen",
      "recv_key", "encrypt", "send_result">>

\* Worker w serves a connection whose client presents another id than
\* otp_enc, or has received only a part of the id.
ForeignId(w) ==
    /\ wk[w].pc # "none" /\ wk[w].fd # BadFD
    /\ \/ cl[wk[w].fd].id # Buf(OTP_ENC)
       \/ wk[w].shortAt = 1

\* C1: when the client presents an id other than otp_enc, or the id is only
\* partly received, the daemon answers FAIL and neither side sends or receives
\* a frame after the authorization: the worker closes the connection and
\* exits, the client exits with 2 having sent no length and no payload.
C1_ForeignIdRejected ==
    \A w \in Workers :
        ForeignId(w) =>
            /\ wk[w].pc # "recv_id" => wk[w].auth = Buf(FAIL)
            /\ IsPrefix(wk[w].trace, <<"recv_id", "send_auth">>)
            /\ wk[w].pc \in {"recv_id", "send_auth"} \cup WorkerEnded
            /\ wk[w].pc \in WorkerEnded => "worker" \notin ch[wk[w].fd].sRefs
            /\ IsPrefix(cl[wk[w].fd].trace, <<"send_id", "recv_auth">>)
            /\ cl[wk[w].fd].pc \in {"send_id", "recv_auth", "exit2", "killed"}
            /\ cl[wk[w].fd].pc \in ClientEnded => ~ch[wk[w].fd].cOpen

\* otp_dec has presented its id whole, has been answered FAIL and has exited
\* with 2; the worker has closed the connection and exited.
C1_Witness ==
    /\ cl[1].id = Buf(OTP_DEC) /\ cl[1].pc = "exit2" /\ cl[1].auth = Buf(FAIL)
    /\ cl[1].shortAt = 0 /\ cl[1].trace = <<"send_id", "recv_auth">>
    /\ wk[1].pc = "exit0" /\ wk[1].shortAt = 0 /\ wk[1].auth = Buf(FAIL)
    /\ ch[1].sRefs = {}

\* C2: once a transfer has moved fewer chars than asked for, the handler does
\* no later step of the protocol on that connection: the call that came back
\* short is the last entry of its trace.
C2_ShortTransferAborts ==
    /\ \A c \in Conns : cl[c].shortAt # 0 => Len(cl[c].trace) = cl[c].shortAt
    /\ \A w \in Workers : wk[w].shortAt # 0 => Len(wk[w].trace) = wk[w].shortAt

\* C15: encrypt is never called with a key shorter than the text: at every
\* call of encrypt by the worker the key length it has received is at least the
\* text length it has received.
C15_KeyCoversText ==
    \A w \in Workers :
        Len(wk[w].trace) >= 7 => wk[w].keyLen >= wk[w].textLen

\* A send()/recv() on connection c has failed.
Failed(c) ==
    \/ cl[c].shortAt # 0 \/ cl[c].pc = "killed"
    \/ \E w \in Workers : wk[w].fd = c /\ (wk[w].shortAt # 0 \/ wk[w].pc = "killed")

\* Both sides of connection c have come to the end of the exchange.
BothDone(c) ==
    /\ cl[c].pc = "done"
    /\ \E w \in Workers : wk[w].fd = c /\ wk[w].pc = "exit0"

\* encrypt of the client's text with the first textLen symbols of its key.
PrefixCipher(c) ==
    Take(encrypt(cl[c].ciphertext, Buf(Take(cl[c].key, cl[c].textLen)),
                 Zeros(cl[c].textLen + 1), cl[c].textLen).cipher, cl[c].textLen)

\* C19: when the client presents otp_enc on a connection that does not fail,
\* with a key at least as long as the text, the exchange comes to its end with
\* both sides done, and what the client is given is textLen symbols: encrypt of
\* the text with the first textLen symbols of the key, whatever follows them.
C19_ExchangeCompletes ==
    /\ []<>(\A c \in Conns :
              (cl[c].id = Buf(OTP_ENC) /\ cl[c].keyLen >= cl[c].textLen) =>
                  (Failed(c) \/ BothDone(c)))
    /\ [](\A c \in Conns :
            (cl[c].id = Buf(OTP_ENC) /\ cl[c].pc = "done" /\ ~Failed(c)) =>
                (BothDone(c) /\ cl[c].out = PrefixCipher(c)))

\* An exchange has ended well with a key longer than the text.
C19_Witness ==
    /\ cl[1].id = Buf(OTP_ENC) /\ BothDone(1) /\ ~Failed(1)
    /\ cl[1].textLen = MaxText /\ cl[1].keyLen = MaxText + 1
    /\ cl[1].out = PrefixCipher(1) /\ Len(cl[1].out) = MaxText

\* Every frame the client has sent so far went out whole.
SentWhole(c) == cl[c].shortAt \notin 1..6

\* C9: on one connection the frames go in the fixed order id, authorization,
\* text length, text, key length, key, result: each side makes its calls in
\* that order, one after the return of the other, none left out and none made
\* twice; the call a side is in is the last it has begun; what the worker
\* receives whole as text length, text and key length is what the client sent
\* as such; and the result is sent only after the key has been received.
C9_FixedOrder ==
    /\ \A c \in Conns :
          /\ IsPrefix(cl[c].trace, ClientOrder)
          /\ cl[c].pc \in ClientCalls => cl[c].trace[Len(cl[c].trace)] = cl[c].pc
          /\ cl[c].pc = "done" => cl[c].trace = ClientOrder
    /\ \A w \in Workers :
          /\ IsPrefix(wk[w].trace, WorkerOrder)
          /\ wk[w].pc \in WorkerCalls => wk[w].trace[Len(wk[w].trace)] = wk[w].pc
          /\ (wk[w].fd # BadFD /\ wk[w].shortAt = 0 /\ SentWhole(wk[w].fd)) =>
                /\ Len(wk[w].trace) > 3 => wk[w].textLen = cl[wk[w].fd].textLen
                /\ Len(wk[w].trace) \in 5..6 =>
                      wk[w].plaintext = cl[wk[w].fd].ciphertext
                /\ Len(wk[w].trace) > 5 => wk[w].keyLen = cl[wk[w].fd].keyLen

\* A whole exchange: the client has made every call up to printing the
\* result, the worker every call up to sending it, no transfer came back short.
C9_Witness ==
    /\ cl[1].pc = "done" /\ cl[1].trace = ClientOrder /\ cl[1].shortAt = 0
    /\ wk[1].pc = "exit0" /\ wk[1].trace = WorkerOrder /\ wk[1].shortAt = 0
    /\ cl[1].textLen = MaxText

(***************************************************************************)
(* The dispatcher: the while(1) loop of main of otp_enc_d.c, its parent    *)
(* branch, and the clients that connect to it                              *)
(***************************************************************************)
MaxForkFail == 1

\* The text and key the clients of this specification hold.
DispText == <<ChA>>
DispKey == <<SP>>

\* The text of the client on connection c: each connection carries its own.
DispTextOf(c) == [i \in 1..Len(DispText) |-> DispText[i] + c - 1]

DispInit ==
    /\ cx = CipherIdle
    /\ xf = XferIdle
    /\ cl = [c \in Conns |-> ClientIdle]
    /\ wk = [w \in Workers |-> WorkerIdle]
    /\ ch = [c \in Conns |-> ChanIdle]
    /\ disp = [DispIdle EXCEPT !.pc = "accept"]
    /\ net = [NetQuiet EXCEPT !.acceptFails = MaxAcceptFail, !.forkFails = MaxForkFail]

\* A client's connect() succeeds: the connection waits to be accepted.
ClientConnect(c) ==
    /\ disp.pc # "idle" /\ cl[c].pc = "unconnected"
    /\ \E id \in {OTP_DEC, OTP_ENC} :
          cl' = [cl EXCEPT ![c] = ClientStart(id, DispTextOf(c), DispKey)]
    /\ ch' = [ch EXCEPT ![c] = [ChanIdle EXCEPT !.cOpen = TRUE, !.sRefs = {"listen"}]]
    /\ disp' = [disp EXCEPT !.pending = Append(@, c)]
    /\ UNCHANGED <<wk, net, cx, xf>>

\* accept() returns the descriptor of the first waiting connection.
Accept ==
    /\ disp.pc = "accept" /\ disp.pending # <<>>
    /\ disp' = [disp EXCEPT !.pc = "fork", !.connectedFD = Head(disp.pending),
                            !.pending = Tail(@)]
    /\ ch' = [ch EXCEPT ![Head(disp.pending)].sRefs = {"parent"}]
    /\ UNCHANGED <<cl, wk, net, cx, xf>>

\* accept() returns -1: the error is printed and the loop goes on to fork().
AcceptFail ==
    /\ disp.pc = "accept" /\ net.acceptFails > 0
    /\ disp' = [disp EXCEPT !.pc = "fork", !.connectedFD = BadFD]
    /\ net' = [net EXCEPT !.acceptFails = @ - 1]
    /\ UNCHANGED <<cl, wk, ch, cx, xf>>

\* fork() succeeds: the child holds a copy of connectedFD.
Fork ==
    /\ disp.pc = "fork" /\ disp.round \in Workers
    /\ wk' = [wk EXCEPT ![disp.round] = WorkerStart(disp.connectedFD)]
    /\ ch' = IF disp.connectedFD = BadFD THEN ch
             ELSE [ch EXCEPT ![disp.connectedFD].sRefs = @ \cup {"worker"}]
    /\ disp' = [disp EXCEPT !.pc = "parent", !.pid = disp.round, !.round = @ + 1]
    /\ UNCHANGED <<cl, net, cx, xf>>

\* fork() returns -1 and the daemon gives up.
ForkFail_Exit ==
    /\ disp.pc = "fork" /\ net.forkFails > 0
    /\ disp' = [disp EXCEPT !.pc = "exited", !.pid = -1]
    /\ net' = [net EXCEPT !.forkFails = @ - 1]
    /\ UNCHANGED <<cl, wk, ch, cx, xf>>

\* fork() returns -1: the error is printed and the loop starts over.
ForkFail ==
    /\ disp.pc = "fork" /\ net.forkFails > 0
    /\ disp' = [disp EXCEPT !.pc = "accept", !.pid = -1]
    /\ net' = [net EXCEPT !.forkFails = @ - 1]
    /\ UNCHANGED <<cl, wk, ch, cx, xf>>

Exited(w) == wk[w].pc \in WorkerEnded

\* The parent branch with a waitpid that waits for the child just forked.
ParentReap_Blocking ==
    /\ disp.pc = "parent" /\ wk[disp.pid].pc \in WorkerEnded
    /\ ch' = IF disp.connectedFD = BadFD THEN ch
             ELSE [ch EXCEPT ![disp.connectedFD].sRefs = @ \ {"parent"}]
    /\ wk' = [w \in Workers |-> IF wk[w].pc \in WorkerEnded
                                 THEN [wk[w] EXCEPT !.reaped = TRUE] ELSE wk[w]]
    /\ disp' = [disp EXCEPT !.pc = "accept", !.pid = -1]
    /\ UNCHANGED <<cl, net, cx, xf>>

\* The parent branch: close(connectedFD), then waitpid(-1, &status, WNOHANG)
\* until it returns no pid: every child that has exited is reaped.
ParentReap ==
    /\ disp.pc = "parent"
    /\ ch' = IF disp.connectedFD = BadFD THEN ch
             ELSE [ch EXCEPT ![disp.connectedFD].sRefs = @ \ {"parent"}]
    /\ wk' = [w \in Workers |-> IF Exited(w) THEN [wk[w] EXCEPT !.reaped = TRUE] ELSE wk[w]]
    /\ disp' = [disp EXCEPT !.pc = "accept",
                            !.pid = IF \E w \in Workers : wk[w].pc # "none" /\ ~Exited(w)
                                    THEN 0 ELSE -1]
    /\ UNCHANGED <<cl, net, cx, xf>>

DispatcherStep == Accept \/ Fork \/ ParentReap

DispNext ==
    \/ \E c \in Conns : ClientConnect(c)
    \/ Accept \/ AcceptFail \/ Fork \/ ForkFail \/ ParentReap
    \/ \E c \in Conns : ClientSend(c) \/ ClientRecv(c)
    \/ \E w \in Workers : WorkerSend(w) \/ WorkerRecv(w) \/ WorkerIoErr(w)

SpecDisp == DispInit /\ [][DispNext]_vars

\* The dispatcher and every worker are processes the system schedules; a
\* client may stall for good between any two of its steps.
FairDisp ==
    /\ SpecDisp
    /\ WF_vars(DispatcherStep)
    /\ \A w \in Workers : WF_vars(WorkerStep(w))

(***************************************************************************)
(* Claims about the dispatcher (under SpecDisp and FairDisp)               *)
(***************************************************************************)
\* Worker w will be sent all that its exchange reads: its descriptor is none,
\* or its client has sent every frame, or awaits the answer to a foreign id.
Served(w) ==
    /\ wk[w].pc # "none"
    /\ \/ wk[w].fd = BadFD
       \/ wk[w].fd # BadFD /\ cl[wk[w].fd].pc \in {"recv_result"} \cup ClientEnded
       \/ wk[w].fd # BadFD /\ cl[wk[w].fd].pc = "recv_auth"
                           /\ cl[wk[w].fd].id # Buf(OTP_ENC)

\* C10: a stalled peer stalls only its own worker: whatever clients stall, for
\* however long, the dispatcher comes back to accept after each dispatch with
\* every connection that has arrived accepted, and every worker whose client
\* has sent what the exchange needs runs to its end.
C10_StallIsLocal ==
    /\ []<>(disp.pc = "accept" /\ disp.pending = <<>>)
    /\ []<>(\A w \in Workers : Served(w) => Exited(w))

\* A worker is blocked on a client that has sent nothing, while a connection
\* accepted after it has been served, its worker reaped, and the dispatcher is
\* back at accept.
C10_Witness ==
    \E w1, w2 \in Workers :
        /\ w1 < w2 /\ disp.pc = "accept"
        /\ wk[w1].pc = "recv_id" /\ wk[w1].fd # BadFD /\ wk[w1].f.total = 0
        /\ WorkerChan(w1).c2s = <<>> /\ WorkerChan(w1).cOpen
        /\ wk[w2].pc = "exit0" /\ wk[w2].reaped /\ wk[w2].fd # BadFD
        /\ cl[wk[w2].fd].pc = "done"

\* The places of the dispatcher's loop.
LoopPcs == {"accept", "fork", "parent"}

\* C11: once listening, the dispatcher never leaves its loop, whatever fails
\* (accept, fork, an admission, the I/O of a worker), and a step in which a
\* worker ends is a step of that worker alone: it ends no other worker and
\* leaves the dispatcher where it is.
C11_DispatcherNeverExits ==
    [][/\ disp.pc \in LoopPcs => disp'.pc \in LoopPcs
       /\ \A w \in Workers :
             (~Exited(w) /\ wk'[w].pc \in WorkerEnded) =>
                /\ disp' = disp
                /\ \A v \in Workers \ {w} : wk'[v] = wk[v]]_vars

\* accept() and fork() have each failed, the worker forked on the descriptor
\* that accept() left has failed in its I/O and exited, and the dispatcher is
\* at accept while another worker is in its exchange.
C11_Witness ==
    /\ disp.pc = "accept" /\ net.acceptFails = 0 /\ net.forkFails = 0
    /\ \E w, u \in Workers :
          /\ wk[w].fd = BadFD /\ Exited(w) /\ wk[w].shortAt # 0
          /\ wk[u].fd # BadFD /\ wk[u].pc \in WorkerCalls

\* What encrypt gives for the text and key of the client on connection c.
OwnCipher(c) ==
    Take(encrypt(cl[c].ciphertext, cl[c].key, Zeros(cl[c].textLen + 1),
                 cl[c].textLen).cipher, cl[c].textLen)

\* What worker w has sent or is sending is decided by its own connection.
OwnAnswers(w) ==
    (wk[w].pc # "none" /\ wk[w].fd # BadFD /\ wk[w].shortAt = 0
        /\ SentWhole(wk[w].fd)) =>
        /\ Len(wk[w].trace) >= 2 => wk[w].auth = Buf(authFor(cl[wk[w].fd].id))
        /\ Len(wk[w].trace) = 8 =>
              Take(wk[w].f.str, wk[w].textLen) = OwnCipher(wk[w].fd)
        /\ cl[wk[w].fd].pc = "done" => cl[wk[w].fd].out = OwnCipher(wk[w].fd)

\* A step that changes worker w is the fork that starts it, the reaping of
\* it, or a step that changes no other worker, no client, not the dispatcher
\* and no connection but w's own.
OwnStep(w) ==
    \/ wk[w].pc = "none" /\ disp.pc = "fork" /\ wk'[w] = WorkerStart(disp.connectedFD)
    \/ Exited(w) /\ wk'[w] = [wk[w] EXCEPT !.reaped = TRUE]
    \/ /\ \A v \in Workers \ {w} : wk'[v] = wk[v]
       /\ disp' = disp /\ cl' = cl
       /\ \A c \in Conns \ {wk[w].fd} : ch'[c] = ch[c]

\* C12: workers are isolated: under every interleaving the authorization and
\* the result a worker sends are those its own connection's id, text and key
\* give, and the id, length, text, key and cipher buffers of a worker change
\* only in that worker's own steps, which touch no other worker, not the
\* dispatcher, and no other connection.
C12_WorkersIsolated ==
    /\ [](\A w \in Workers : OwnAnswers(w))
    /\ [][\A w \in Workers : wk'[w] # wk[w] => OwnStep(w)]_vars

\* Two workers are in their exchanges at once, one about to answer FAIL to a
\* foreign id, the other sending the result for its own connection's text.
C12_Witness ==
    \E w, v \in Workers :
        /\ wk[w].fd # BadFD /\ wk[v].fd # BadFD /\ wk[w].fd # wk[v].fd
        /\ wk[w].pc = "send_auth" /\ wk[w].auth = Buf(FAIL)
        /\ wk[v].pc = "send_result" /\ wk[v].shortAt = 0
        /\ Take(wk[v].f.str, wk[v].textLen) = OwnCipher(wk[v].fd)
        /\ OwnCipher(wk[w].fd) # OwnCipher(wk[v].fd)

\* Nothing is left that takes the dispatcher out of accept(): no connection
\* waits, no client is still to connect, and accept() does not fail.
AcceptBlocksForGood ==
    /\ disp.pc = "accept" /\ disp.pending = <<>> /\ net.acceptFails = 0
    /\ \A c \in Conns : cl[c].pc # "unconnected"

\* C13: every worker that completes is reaped by the dispatcher: once the
\* dispatcher waits in accept() for good and no worker runs any more, no
\* worker that has exited is left unreaped.
C13_CompletedIsReaped ==
    (AcceptBlocksForGood /\ \A w \in Workers : wk[w].pc \in WorkerEnded \cup {"none"}) =>
        \A w \in Workers : Exited(w) => wk[w].reaped

\* Connection c has been accepted and the dispatch of it is over.
Dispatched(c) ==
    /\ cl[c].pc # "unconnected" /\ disp.pc = "accept"
    /\ \A i \in 1..Len(disp.pending) : disp.pending[i] # c

\* C14: every accepted connection is released by the daemon once its exchange
\* has ended, the one whose fork() failed too: when the dispatch of it is over
\* and no worker is in an exchange on it, neither the dispatcher nor a worker
\* holds a descriptor of it.
C14_ConnectionReleased ==
    \A c \in Conns :
        (Dispatched(c) /\ \A w \in Workers : wk[w].fd = c => Exited(w)) =>
            ch[c].sRefs = {}

\* C23: scanfile ends its scan at the newline or at the end of the file: while
\* it scans, the count of chars it has read is at most the length of the file.
C23_ScanEndsAtEOF ==
    \A c \in Conns :
        cl[c].pc \in StartPcs => cl[c].length <= Len(ScannedFile(c))

\* C22: workers and accepted connections correspond one to one: every worker
\* the dispatcher has started serves a connection that accept() gave, and no
\* two workers serve the same connection.
C22_OneWorkerPerConnection ==
    /\ \A w \in Workers : wk[w].pc # "none" => wk[w].fd \in Conns
    /\ \A w, v \in Workers :
          (w # v /\ wk[w].pc # "none" /\ wk[v].pc # "none" /\ wk[w].fd \in Conns) =>
              wk[w].fd # wk[v].fd

(***************************************************************************)
(* sendrecv alone, on one connection whose other end feeds and takes chars *)
(* and may close at any time.                                              *)
(*   xf.wire   received mode: the chars that arrived and were not yet read;*)
(*             send mode: the chars handed to the connection so far        *)
(*   xf.data   received mode: the chars the peer sends, in order           *)
(*   xf.fed    how many of them the peer has sent                          *)
(*   xf.peer   "open" or "closed"                                          *)
(*   xf.clean  no send()/recv() has reported closure or an error           *)
(***************************************************************************)
MaxXfer == 3

\* At most this many chars more than len are on offer to a receive.
MaxSurplus == 1

Stale == 88

\* len distinct chars, so that order and repetition show.
Pattern(n) == [i \in 1..n |-> ChA + i - 1]

XferInit ==
    /\ cx = CipherIdle
    /\ ServiceIdle
    /\ \E len \in 0..MaxXfer, sendMode \in BOOLEAN, have \in 0..(MaxXfer + MaxSurplus) :
          /\ sendMode => have = 0
          /\ have <= len + MaxSurplus
          /\ xf = [XferIdle EXCEPT
                     !.pc = "call",
                     !.data = Pattern(have),
                     !.str0 = IF sendMode THEN Buf(Pattern(len))
                                          ELSE [i \in 1..(len + 1) |-> Stale],
                     !.f = [@ EXCEPT !.len = len, !.sendMode = sendMode]]

\* The caller enters sendrecv(sockFD, str, len, sendMode).
XferCall ==
    /\ xf.pc = "call"
    /\ xf' = [xf EXCEPT !.f = sr_begin(xf.str0, xf.f.len, xf.f.sendMode),
                        !.ret = IF 0 < xf.f.len THEN xf.ret ELSE 0,
                        !.pc = IF 0 < xf.f.len THEN "in" ELSE "returned"]
    /\ UNCHANGED <<cx, svars>>

\* What one iteration leaves: the call goes on or has returned total.
XferAfter(f2, wire2, clean2) ==
    xf' = [xf EXCEPT !.f = f2, !.wire = wire2, !.clean = clean2,
                     !.pc = IF f2.st = "ret" THEN "returned" ELSE "in",
                     !.ret = IF f2.st = "ret" THEN f2.total ELSE xf.ret]

\* send() moves n of the rem chars asked for.
XferSend ==
    /\ xf.pc = "in" /\ xf.f.sendMode /\ xf.peer = "open"
    /\ \E n \in 1..xf.f.rem :
          XferAfter(sr_op(xf.f, n, <<>>), xf.wire \o sentChars(xf.f, n), xf.clean)
    /\ UNCHANGED <<cx, svars>>

\* send() fails (the connection reports an error, or the peer has closed).
XferSendErr ==
    /\ xf.pc = "in" /\ xf.f.sendMode
    /\ XferAfter(sr_op(xf.f, -1, <<>>), xf.wire, FALSE)
    /\ UNCHANGED <<cx, svars>>

\* send() to a peer that has closed raises SIGPIPE, which ends the process.
XferSendPipe ==
    /\ xf.pc = "in" /\ xf.f.sendMode /\ xf.peer = "closed"
    /\ xf' = [xf EXCEPT !.pc = "killed", !.clean = FALSE]
    /\ UNCHANGED <<cx, svars>>

\* recv() moves n of the chars that have arrived, at most rem.
XferRecv ==
    /\ xf.pc = "in" /\ ~xf.f.sendMode
    /\ \E n \in 1..Min(xf.f.rem, Len(xf.wire)) :
          XferAfter(sr_op(xf.f, n, Take(xf.wire, n)), Drop(xf.wire, n), xf.clean)
    /\ UNCHANGED <<cx, svars>>

\* recv() at the end of the stream: the peer has closed and nothing is left.
XferRecvEof ==
    /\ xf.pc = "in" /\ ~xf.f.sendMode
    /\ xf.peer = "closed" /\ xf.wire = <<>>
    /\ XferAfter(sr_op(xf.f, 0, <<>>), xf.wire, FALSE)
    /\ UNCHANGED <<cx, svars>>

\* recv() fails.
XferRecvErr ==
    /\ xf.pc = "in" /\ ~xf.f.sendMode
    /\ XferAfter(sr_op(xf.f, -1, <<>>), xf.wire, FALSE)
    /\ UNCHANGED <<cx, svars>>

\* The peer sends some more of its chars.
PeerFeed ==
    /\ xf.pc \in {"call", "in"} /\ xf.peer = "open"
    /\ \E k \in 1..(Len(xf.data) - xf.fed) :
          xf' = [xf EXCEPT !.fed = xf.fed + k,
                           !.wire = xf.wire \o [i \in 1..k |-> xf.data[xf.fed + i]]]
    /\ UNCHANGED <<cx, svars>>

\* The peer closes the connection.
PeerClose ==
    /\ xf.pc \in {"call", "in"} /\ xf.peer = "open"
    /\ xf' = [xf EXCEPT !.peer = "closed"]
    /\ UNCHANGED <<cx, svars>>

XferNext ==
    \/ XferCall \/ XferSend \/ XferSendErr \/ XferSendPipe
    \/ XferRecv \/ XferRecvEof \/ XferRecvErr
    \/ PeerFeed \/ PeerClose

SpecXfer == XferInit /\ [][XferNext]_vars

(***************************************************************************)
(* Claims about sendrecv (under SpecXfer)                                  *)
(***************************************************************************)
\* C3: once a send()/recv() of the call has signalled closure (a receive of 0
\* chars at the end of the stream) or an error, sendrecv has returned, with a
\* count strictly less than len: it does not go round the loop again.
C3_ReturnsOnClosure ==
    xf.f.last \in {"eof", "err"} => (xf.pc = "returned" /\ xf.ret < xf.f.len)

\* C4: over an unbroken connection with sufficient data sendrecv returns
\* exactly len, for every len >= 0 and every split into partial results: the
\* chars at offsets 0..len-1 are moved in order, each once, and never more
\* than len of them.
C4_ExactTransfer ==
    (xf.pc \in {"in", "returned"} /\ xf.clean) =>
        /\ xf.f.total <= xf.f.len
        /\ xf.f.rem = xf.f.len - xf.f.total
        /\ IF xf.f.sendMode
           THEN xf.wire = Take(xf.str0, xf.f.total)
           ELSE /\ Take(xf.f.str, xf.f.total) = Take(xf.data, xf.f.total)
                /\ Len(xf.wire) = xf.fed - xf.f.total
        /\ xf.pc = "returned" => (xf.ret = xf.f.len /\ xf.f.total = xf.f.len)

C4_Witness ==
    /\ xf.pc = "returned" /\ xf.clean /\ ~xf.f.sendMode
    /\ xf.f.len = MaxXfer /\ xf.ret = MaxXfer
    /\ Take(xf.f.str, MaxXfer) = Pattern(MaxXfer)
    /\ Len(xf.wire) = MaxSurplus

\* C18: when one send()/recv() of the call reports an error (-1), sendrecv
\* stops at once: it makes no further send()/recv() and returns the count of
\* the chars moved before the error, which are the first of the transfer.
C18_ErrorStopsTransfer ==
    xf.f.last = "err" =>
        /\ xf.pc = "returned"
        /\ xf.ret = xf.f.total /\ xf.f.total < xf.f.len
        /\ IF xf.f.sendMode
           THEN xf.wire = Take(xf.str0, xf.f.total)
           ELSE /\ Take(xf.f.str, xf.f.total) = Take(xf.data, xf.f.total)
                /\ Len(xf.wire) = xf.fed - xf.f.total
                /\ \A i \in (xf.f.total + 1)..(xf.f.len + 1) : xf.f.str[i] = NUL

\* A receive of MaxXfer chars has failed after one char was moved.
C18_Witness ==
    /\ xf.f.last = "err" /\ xf.pc = "returned" /\ ~xf.f.sendMode
    /\ xf.f.len = MaxXfer /\ xf.ret = 1 /\ xf.f.str[1] = ChA

\* C21: when sendrecv in receive mode has returned n for a length len, the
\* buffer holds the n chars received at offsets 0..n-1 and NUL at offsets
\* n..len, whatever it held before the call, also when the transfer ended
\* short.
C21_ReceiveBufferCleared ==
    (xf.pc = "returned" /\ ~xf.f.sendMode) =>
        /\ Len(xf.f.str) = xf.f.len + 1
        /\ \A i \in 1..xf.ret : xf.f.str[i] = xf.data[i]
        /\ \A i \in (xf.ret + 1)..(xf.f.len + 1) : xf.f.str[i] = NUL

\* A receive into a buffer full of other chars has ended short after two
\* chars: the buffer holds the two and NUL behind them.
C21_Witness ==
    /\ xf.pc = "returned" /\ ~xf.f.sendMode /\ xf.f.len = MaxXfer /\ xf.ret = 2
    /\ \A i \in 1..(MaxXfer + 1) : xf.str0[i] = Stale
    /\ xf.f.str = [i \in 1..(MaxXfer + 1) |-> IF i <= 2 THEN Pattern(2)[i] ELSE NUL]

(***************************************************************************)
(* One length frame: the client builds it from n and sends it, the worker  *)
(* receives and decodes it. Here xf is                                     *)
(*   xf.n      the length (textLen or keyLen, as xf.field says)            *)
(*   xf.buf    the client's textLenBuf or keyLenBuf                        *)
(*   xf.wire   the chars sent                                              *)
(*   xf.got    the worker's textLenBuf or keyLenBuf                        *)
(*   xf.dec    what the worker takes the length to be                      *)
(***************************************************************************)
MaxFrameN == 40

\* Lengths where the number of digits changes, up to the greatest of 9 digits.
EdgeLens ==
    {9, 10, 99, 100, 99999999, 100000000, 123456789, 999999998, 999999999}

FrameLens == (0..MaxFrameN) \cup EdgeLens

FrameInit ==
    /\ cx = CipherIdle
    /\ ServiceIdle
    /\ \E n \in FrameLens, field \in {"textLen", "keyLen"} :
          xf = [pc |-> "build", n |-> n, field |-> field, buf |-> <<>>,
                f |-> NoCall, wire |-> <<>>, got |-> <<>>, dec |-> 0]

\* The client fills textLenBuf (keyLenBuf) from textLen (keyLen).
FrameBuild ==
    /\ xf.pc = "build"
    /\ xf' = [xf EXCEPT !.pc = "send", !.buf = lenFrame(xf.n)]
    /\ UNCHANGED <<cx, svars>>

\* sendrecv(sockFD, textLenBuf, BUF_LEN, true) of the client, in one send().
FrameSend ==
    /\ xf.pc = "send"
    /\ LET f0 == sr_begin(xf.buf, BUF_LEN, TRUE)
       IN  xf' = [xf EXCEPT !.pc = "recv", !.f = sr_op(f0, f0.rem, <<>>),
                            !.wire = sentChars(f0, f0.rem)]
    /\ UNCHANGED <<cx, svars>>

\* sendrecv(connectedFD, textLenBuf, BUF_LEN, false) of the worker, on a
\* buffer that holds anything before the call.
FrameRecv ==
    /\ xf.pc = "recv"
    /\ LET f0 == sr_begin([i \in 1..(BUF_LEN + 1) |-> Stale], BUF_LEN, FALSE)
           f1 == sr_op(f0, Min(f0.rem, Len(xf.wire)), Take(xf.wire, Min(f0.rem, Len(xf.wire))))
       IN  xf' = [xf EXCEPT !.pc = "decode", !.f = f1, !.got = f1.str]
    /\ UNCHANGED <<cx, svars>>

\* textLen = atoi(textLenBuf) of the worker.
FrameDecode ==
    /\ xf.pc = "decode"
    /\ xf' = [xf EXCEPT !.pc = "decoded", !.dec = atoi(xf.got)]
    /\ UNCHANGED <<cx, svars>>

FrameNext == FrameBuild \/ FrameSend \/ FrameRecv \/ FrameDecode

SpecFrame == FrameInit /\ [][FrameNext]_vars

(***************************************************************************)
(* Claims about the length frame (under SpecFrame)                         *)
(***************************************************************************)
\* C20: length framing round-trips: for every length n of at most 9 digits
\* the frame the client builds is the decimal digits of n followed by NULs,
\* exactly 9 chars of it go over the connection, and the worker decodes them
\* to n, for the text length and for the key length alike.
C20_FrameRoundTrip ==
    /\ xf.pc \in {"send", "recv", "decode", "decoded"} =>
          /\ Len(xf.buf) = BUF_LEN + 1
          /\ \A i \in 1..(BUF_LEN + 1) :
                xf.buf[i] = IF i <= Len(decimal(xf.n)) THEN decimal(xf.n)[i] ELSE NUL
    /\ xf.pc \in {"recv", "decode", "decoded"} =>
          (Len(xf.wire) = BUF_LEN /\ xf.f.total = BUF_LEN)
    /\ xf.pc = "decoded" => xf.dec = xf.n

\* The greatest length of 9 digits has gone over as 9 digits and come out whole.
C20_Witness ==
    /\ xf.pc = "decoded" /\ xf.n = 999999999 /\ xf.dec = 999999999
    /\ xf.field = "keyLen" /\ \A i \in 1..BUF_LEN : xf.wire[i] = 57

(***************************************************************************)
(* The cipher alone: encrypt, then DECRYPT, on inputs over the alphabet.   *)
(***************************************************************************)
MaxCipherLen == 3

\* Symbols at the ends of the index range, used for the longer inputs.
EdgeSyms == {SP, ChA, ChZ}

HELLO == <<72, 69, 76, 76, 79>>
WORLD == <<87, 79, 82, 76, 68>>
A_B == <<65, 32, 66>>
ZZZ == <<90, 90, 90>>

CipherInputs ==
    {<<HELLO, WORLD>>, <<A_B, ZZZ>>}
    \cup UNION {[1..n -> Sigma] \X [1..n -> Sigma] : n \in 0..1}
    \cup UNION {[1..n -> EdgeSyms] \X [1..n -> EdgeSyms] : n \in 2..MaxCipherLen}

CipherInit ==
    /\ xf = XferIdle
    /\ ServiceIdle
    /\ \E in \in CipherInputs :
        cx = [pc |-> "start", len |-> Len(in[1]),
              plain |-> Buf(in[1]), key |-> Buf(in[2]),
              cipher |-> Zeros(Len(in[1]) + 1),
              plain0 |-> in[1], key0 |-> in[2], dec |-> <<>>]

CallEncrypt ==
    /\ cx.pc = "start"
    /\ LET r == encrypt(cx.plain, cx.key, cx.cipher, cx.len)
       IN  cx' = [cx EXCEPT !.pc = "encrypted", !.plain = r.plain, !.key = r.key,
                            !.cipher = r.cipher]
    /\ UNCHANGED <<xf, svars>>

CallDecrypt ==
    /\ cx.pc = "encrypted"
    /\ cx' = [cx EXCEPT !.pc = "decrypted",
                        !.dec = decrypt(cx.cipher, cx.key0, cx.len)]
    /\ UNCHANGED <<xf, svars>>

CipherNext == CallEncrypt \/ CallDecrypt

SpecCipher == CipherInit /\ [][CipherNext]_vars

(***************************************************************************)
(* Claims about the cipher (under SpecCipher)                              *)
(***************************************************************************)
\* Index bijection as the specification states it: A=0, ..., Z=25, space=26.
StatedIndex(c) == IF c = SP THEN 26 ELSE c - ChA

StatedSymbol(n) == IF n = 26 THEN SP ELSE n + ChA

\* Index bijection with the space first: space=0, A=1, ..., Z=26.
SpaceFirstIndex(c) == IF c = SP THEN 0 ELSE c - ChA + 1

SpaceFirstSymbol(n) == IF n = 0 THEN SP ELSE n + ChA - 1

CSBWR == <<67, 83, 66, 87, 82>>
ZY_ == <<90, 89, 32>>
DTCXS == <<68, 84, 67, 88, 83>>
Sp_ZA == <<32, 90, 65>>

\* C5 (as stated): encrypt writes at every position the symbol of index
\* (index(plain[i]) + index(key[i])) mod 27 under A=0, ..., Z=25, space=26;
\* "HELLO" with key "WORLD" gives "CSBWR" and "A B" with key "ZZZ" gives "ZY ".
C5_StatedIndexing ==
    cx.pc = "encrypted" =>
        /\ \A i \in 1..cx.len :
              cx.cipher[i] = StatedSymbol((StatedIndex(cx.plain0[i])
                                            + StatedIndex(cx.key0[i])) % 27)
        /\ (cx.plain0 = HELLO /\ cx.key0 = WORLD) => Take(cx.cipher, 5) = CSBWR
        /\ (cx.plain0 = A_B /\ cx.key0 = ZZZ) => Take(cx.cipher, 3) = ZY_

\* C5 (amended): encrypt writes at every position the symbol of index
\* (index(plain[i]) + index(key[i])) mod 27 under space=0, A=1, ..., Z=26;
\* "HELLO" with key "WORLD" gives "DTCXS" and "A B" with key "ZZZ" gives " ZA".
C5_SpaceFirstIndexing ==
    cx.pc = "encrypted" =>
        /\ \A i \in 1..cx.len :
              cx.cipher[i] = SpaceFirstSymbol((SpaceFirstIndex(cx.plain0[i])
                                                + SpaceFirstIndex(cx.key0[i])) % 27)
        /\ (cx.plain0 = HELLO /\ cx.key0 = WORLD) => Take(cx.cipher, 5) = DTCXS
        /\ (cx.plain0 = A_B /\ cx.key0 = ZZZ) => Take(cx.cipher, 3) = Sp_ZA

C5_Witness ==
    cx.pc = "encrypted" /\ cx.plain0 = HELLO /\ cx.key0 = WORLD
    /\ Take(cx.cipher, 5) = DTCXS

\* C6: inverse law: DECRYPT with key k applied to the output of encrypt(p, k)
\* gives back exactly p, for all equal-length p and k over the alphabet.
C6_InverseLaw ==
    cx.pc = "decrypted" => cx.dec = cx.plain0

C6_Witness ==
    cx.pc = "decrypted" /\ cx.len = MaxCipherLen /\ cx.dec = cx.plain0
    /\ SP \in {cx.plain0[i] : i \in 1..cx.len}
    /\ Take(cx.cipher, cx.len) # cx.plain0

\* The single symbol encrypt produces for plaintext symbol p under key symbol k.
EncryptSymbol(p, k) == encrypt(Buf(<<p>>), Buf(<<k>>), Zeros(2), 1).cipher[1]

\* C7: permutation law: for a fixed key symbol k the map p |-> encrypt([p],[k])
\* is a bijection on the alphabet: every output is one of the 27 symbols and
\* no other plaintext symbol gives the output this plaintext symbol gave.
C7_PermutationLaw ==
    (cx.pc = "encrypted" /\ cx.len = 1) =>
        /\ cx.cipher[1] \in Sigma
        /\ \A q \in Sigma \ {cx.plain0[1]} :
              EncryptSymbol(q, cx.key0[1]) # cx.cipher[1]
        /\ {EncryptSymbol(q, cx.key0[1]) : q \in Sigma} = Sigma

C7_Witness ==
    cx.pc = "encrypted" /\ cx.len = 1 /\ cx.key0[1] = ChZ /\ cx.plain0[1] = ChA
    /\ cx.cipher[1] = SP

\* C8: encrypt has no side effects on its inputs: after the call plain[0..len)
\* and key[0..len) hold the symbols they held before it.
C8_InputsUnchanged ==
    cx.pc = "encrypted" =>
        /\ Take(cx.plain, cx.len) = cx.plain0
        /\ Take(cx.key, cx.len) = cx.key0

(***************************************************************************)
(* keygen: main of keygen.c, its state in cx                               *)
(***************************************************************************)
MaxKeyLen == 3
MaxRand == 54

MIN_CHAR == 64
MAX_CHAR == 90

\* The largest value rand() returns.
RAND_MAX == 2147483647

RandVals == (0..MaxRand) \cup {RAND_MAX}

\* The arguments after the program name: none, one (a length in decimal, a
\* negative length, a word that is no number), or two.
KeygenArgs == {decimal(n) : n \in 0..MaxKeyLen} \cup {<<45, 49>>, <<ChA>>}

KeygenArgvs == {<<>>} \cup {<<a>> : a \in KeygenArgs} \cup {<<decimal(1), decimal(1)>>}

\* The char of the key without the replacement of '@'.
keyChar_KeepAt(r) == (r % (MAX_CHAR - MIN_CHAR + 1)) + MIN_CHAR

\* c = (char)(rand() % (MAX_CHAR - MIN_CHAR + 1) + MIN_CHAR); if (c == '@') c = ' ';
keyChar(r) ==
    LET c == (r % (MAX_CHAR - MIN_CHAR + 1)) + MIN_CHAR
    IN  IF c = AT THEN SP ELSE c

KeygenInit ==
    /\ xf = XferIdle
    /\ ServiceIdle
    /\ \E argv \in KeygenArgvs :
          cx = [pc |-> "start", argv |-> argv, keylength |-> 0, i |-> 0, out |-> <<>>]

\* The checks of main: argc, then keylength = atoi(argv[1]) and keylength < 1.
KeygenStart ==
    /\ cx.pc = "start"
    /\ cx' = IF Len(cx.argv) + 1 # 2 THEN [cx EXCEPT !.pc = "exit1"]
             ELSE IF atoi(cx.argv[1] \o <<NUL>>) < 1
             THEN [cx EXCEPT !.pc = "exit1", !.keylength = atoi(cx.argv[1] \o <<NUL>>)]
             ELSE [cx EXCEPT !.pc = "loop", !.keylength = atoi(cx.argv[1] \o <<NUL>>)]
    /\ UNCHANGED <<xf, cl, wk, ch, disp, net>>

\* One turn of the for loop: a random char is printed.
KeygenChar ==
    /\ cx.pc = "loop"
    /\ cx.i < cx.keylength
    /\ \E r \in RandVals :
          cx' = [cx EXCEPT !.i = @ + 1, !.out = Append(@, keyChar(r))]
    /\ UNCHANGED <<xf, cl, wk, ch, disp, net>>

\* The loop is over: the newline is printed and main returns 0.
KeygenNewline ==
    /\ cx.pc = "loop"
    /\ cx.i >= cx.keylength
    /\ cx' = [cx EXCEPT !.pc = "exit0", !.out = Append(@, NL)]
    /\ UNCHANGED <<xf, cl, wk, ch, disp, net>>

KeygenNext == KeygenStart \/ KeygenChar \/ KeygenNewline

SpecKeygen == KeygenInit /\ [][KeygenNext]_vars

\* C24: for a keylength of at least 1 and whatever rand returns, keygen prints
\* exactly keylength chars, each a capital letter or the space (never '@'),
\* and then exactly one newline; for a keylength below 1 it prints no key and
\* exits with failure.
C24_KeyWellFormed ==
    /\ cx.pc = "exit0" =>
          /\ cx.keylength >= 1
          /\ Len(cx.out) = cx.keylength + 1
          /\ \A i \in 1..cx.keylength : cx.out[i] \in Sigma
          /\ cx.out[cx.keylength + 1] = NL
    /\ cx.pc = "loop" =>
          /\ cx.keylength >= 1
          /\ Len(cx.out) = cx.i /\ cx.i <= cx.keylength
          /\ \A i \in 1..Len(cx.out) : cx.out[i] \in Sigma
    /\ cx.pc = "exit1" => cx.out = <<>>
    /\ (cx.pc # "start" /\ Len(cx.argv) = 1 /\ cx.keylength < 1) => cx.pc = "exit1"

C24_Witness ==
    /\ cx.pc = "exit0"
    /\ cx.keylength >= 2
    /\ cx.out[1] = SP
    /\ cx.out[2] = ChZ

====
